---- MODULE Spec2Model ----
(***************************************************************************)
(* OTP authentication and session core of the Smart Crop Advisory API      *)
(* (src/main.py, src/schemas.py).                                          *)
(*                                                                         *)
(* Collections are sequences in insertion (natural) order.  Timestamps are *)
(* whole minutes.  verify_otp is a synchronous handler that FastAPI runs   *)
(* on a thread pool, so a call is three steps of a worker, one per store   *)
(* access that another call can interleave with: the checks and the farmer *)
(* lookup, the upsert, the session insert.  request_otp and the            *)
(* require_session dependency do one store access and are single steps.    *)
(***************************************************************************)
EXTENDS Integers, Sequences, FiniteSets

\* ---------------------------------------------------------------- bounds
\* Most challenges ever issued.
MaxOtps == 2
\* Most sessions ever issued.
MaxSessions == 2

\* ------------------------------------------------------ program constants
\* timedelta(minutes=5), in minutes.
OtpTTL == 5
\* timedelta(days=7), in minutes.
SessionTTL == 10080
\* 7 * 24 * 3600, the expires_in of the TokenResponse, in seconds.
ExpiresIn == 604800

\* ------------------------------------------------------------ input sets
\* Python's None.
None == "None"
\* Values of the optional profile fields of OTPVerifyRequest: all left out (language
\* then defaults to "en"), and all given.
NoProfile == [aadhaar |-> None, language |-> "en", name |-> None, location |-> None]
FullProfile == [aadhaar |-> "A1", language |-> "hi", name |-> "N1", location |-> "L1"]
\* Bodies of POST /auth/request-otp (OTPStartRequest).
OtpStartRequests ==
    { [phone |-> "P1", farmer_id |-> None],
      [phone |-> "P1", farmer_id |-> "F1"],
      [phone |-> "P2", farmer_id |-> None] }
\* Values of secrets.randbelow(1000000) formatted as six digits.
Codes == {"000001", "000002"}
\* Bodies of POST /auth/verify-otp (OTPVerifyRequest).
OtpVerifyRequests ==
    { [phone |-> "P1", otp |-> "000001", farmer_id |-> None, profile |-> NoProfile],
      [phone |-> "P1", otp |-> "000002", farmer_id |-> None, profile |-> NoProfile],
      [phone |-> "P1", otp |-> "000001", farmer_id |-> "F1", profile |-> FullProfile],
      [phone |-> "P2", otp |-> "000001", farmer_id |-> "F1", profile |-> NoProfile] }
\* Worker threads that run verify_otp.
Calls == {"c1", "c2"}
\* Readings of the clock, in minutes since the first request: the instants at which
\* the challenges and sessions created at an earlier reading expire.
Instants == {0, OtpTTL, SessionTTL, SessionTTL + OtpTTL}
\* The readings while requests overlap: a challenge created at 0 has expired at the
\* later one.
EarlyInstants == {0, OtpTTL + 1}
\* Bearer tokens a client may present: 0 matches no session.
TokenInputs == 0 .. MaxSessions

VARIABLES
    now,        \* the clock, now_utc()
    otps,       \* collection "otprequest"
    farmers,    \* collection "farmer"
    sessions,   \* collection "session"
    pc,         \* position of each verify_otp worker
    payload,    \* OTPVerifyRequest of each worker
    latest,     \* verify_otp's local `latest`: index into otps, 0 for None
    farmer_doc, \* verify_otp's local `farmer_doc`: index into farmers, 0 for None
    sess_at,    \* the created_at clock reading of the Session being built
    out,        \* the request most recently answered, with its answer
    verified    \* history: <<phone, farmer identifier>> of every successful verify_otp

vars == <<now, otps, farmers, sessions, pc, payload, latest, farmer_doc,
          sess_at, out, verified>>

NoPayload == [phone |-> None, otp |-> None, farmer_id |-> None, profile |-> None]

\* An answer: the endpoint, the phone, code and token of the request, and the status
\* ("ok", or the detail of the HTTPException), token and farmer identifier returned.
Answer(op, phone, otp, token, status, farmer_id, expires_in) ==
    [op |-> op, phone |-> phone, otp |-> otp, token |-> token, status |-> status,
     farmer_id |-> farmer_id, expires_in |-> expires_in]
NoAnswer == Answer(None, None, None, 0, None, None, 0)

\* ------------------------------------------------------------ helpers

\* find_one(filter) without a sort: the first matching document in natural order,
\* 0 for None.  S is the set of indexes of the matching documents.
FirstMatch(S) == IF S = {} THEN 0 ELSE CHOOSE i \in S : \A j \in S : i <= j

\* A find_one that forgets the sort: any challenge of the phone.
AnyOtps(phone) == { i \in DOMAIN otps : otps[i].phone = phone }

\* otps.find_one({"phone": phone}, sort=[("created_at", -1)]): the documents it can
\* return, those of greatest created_at (the order among equal keys is not fixed).
LatestOtps(phone) ==
    LET P == { i \in DOMAIN otps : otps[i].phone = phone }
    IN  { i \in P : \A j \in P : otps[j].created_at <= otps[i].created_at }

\* latest.get("otp") != payload.otp
OtpMismatch(doc, otp) == doc.otp # otp

\* An expiry check that never fires.
NeverExpired(doc, t) == FALSE

\* An expiry check that also takes a challenge as spent once a session has been issued.
OtpExpiredOrSpent(doc, t) == doc.expires_at < t \/ sessions # <<>>

\* latest.get("expires_at") and latest["expires_at"] < now_utc()
OtpExpired(doc, t) == doc.expires_at < t

\* A session check that takes the expiry instant itself as expired.
SessionExpiredAtExpiry(s, t) == s.expires_at <= t

\* s.get("expires_at") and s["expires_at"] < now_utc()
SessionExpired(s, t) == s.expires_at < t

\* fid = payload.farmer_id or payload.phone
CanonicalId(farmer_id, phone) ==
    IF farmer_id = None \/ farmer_id = "" THEN phone ELSE farmer_id

\* farmers.find_one({"farmer_id": fid})
FindFarmer(fid) == FirstMatch({ i \in DOMAIN farmers : farmers[i].farmer_id = fid })

\* A find_one that forgets the filter: the first session, whatever the token.
FindFirstSession(token) == FirstMatch(DOMAIN sessions)

\* sessions.find_one({"token": token})
FindSession(token) == FirstMatch({ i \in DOMAIN sessions : sessions[i].token = token })

\* require_session(token): the farmer identifier, or the detail of the 401.
RequireSession(token, t) ==
    LET s == FindSession(token)
    IN  IF s = 0 THEN [status |-> "Invalid token", farmer_id |-> None]
        ELSE IF SessionExpired(sessions[s], t)
             THEN [status |-> "Session expired", farmer_id |-> None]
             ELSE [status |-> "ok", farmer_id |-> sessions[s].farmer_id]

\* ------------------------------------------------------------ initial state
Init ==
    /\ now = 0
    /\ otps = <<>>
    /\ farmers = <<>>
    /\ sessions = <<>>
    /\ pc = [c \in Calls |-> "idle"]
    /\ payload = [c \in Calls |-> NoPayload]
    /\ latest = [c \in Calls |-> 0]
    /\ farmer_doc = [c \in Calls |-> 0]
    /\ sess_at = [c \in Calls |-> 0]
    /\ out = NoAnswer
    /\ verified = {}

\* ------------------------------------------------------------ the clock
\* A clock that can also be set back.
TickAnywhere(I) ==
    /\ \E t \in I : t # now /\ now' = t
    /\ UNCHANGED <<otps, farmers, sessions, pc, payload, latest, farmer_doc, sess_at,
                   out, verified>>

\* The clock is monotonic: it only moves to a later instant, here one of I.
Tick(I) ==
    /\ \E t \in I : t > now /\ now' = t
    /\ UNCHANGED <<otps, farmers, sessions, pc, payload, latest, farmer_doc, sess_at,
                   out, verified>>

\* ------------------------------------------------------------ request_otp
\* OTPRequest(phone=..., otp=otp, expires_at=expires, verified=False, farmer_id=...)
NewOtp(phone, farmer_id, otp, t) ==
    [farmer_id |-> farmer_id, phone |-> phone, otp |-> otp, expires_at |-> t + OtpTTL,
     verified |-> FALSE]

\* create_document (database.py): the document is stored with its creation timestamp,
\* the key verify_otp sorts on.
Stamped(doc, t) ==
    [f \in DOMAIN doc \cup {"created_at"} |-> IF f = "created_at" THEN t ELSE doc[f]]

\* POST /auth/request-otp: one new challenge, never replacing an earlier one; the
\* code is echoed as demo_otp.
RequestOtp ==
    /\ Len(otps) < MaxOtps
    /\ \E req \in OtpStartRequests, otp \in Codes :
         /\ otps' = Append(otps, Stamped(NewOtp(req.phone, req.farmer_id, otp, now), now))
         /\ out' = Answer("request_otp", req.phone, otp, 0, "OTP sent", None, 0)
    /\ UNCHANGED <<now, farmers, sessions, pc, payload, latest, farmer_doc,
                   sess_at, verified>>

\* ------------------------------------------------------------ verify_otp
\* POST /auth/verify-otp, one action per store access.

\* Workers past the checks that have not yet stored their session.
InFlight == { c \in Calls : pc[c] # "idle" }

\* The worker that serves the requests when no two of them overlap.
Single == CHOOSE c \in Calls : TRUE

\* The worker returns or raises: its locals are gone and it takes the next request.
Finish(c) ==
    /\ pc' = [pc EXCEPT ![c] = "idle"]
    /\ payload' = [payload EXCEPT ![c] = NoPayload]
    /\ latest' = [latest EXCEPT ![c] = 0]
    /\ farmer_doc' = [farmer_doc EXCEPT ![c] = 0]
    /\ sess_at' = [sess_at EXCEPT ![c] = 0]

\* raise HTTPException(status_code=400, detail=detail)
Raise(c, phone, otp, detail) ==
    /\ out' = Answer("verify_otp", phone, otp, 0, detail, None, 0)
    /\ UNCHANGED <<pc, payload, latest, farmer_doc, sess_at>>

\* fid = payload.farmer_id or payload.phone, for a worker's request
Fid(c) == CanonicalId(payload[c].farmer_id, payload[c].phone)

\* What find_one can return for a phone: a document of LatestOtps, or None (0).
FindLatest(phone) == IF LatestOtps(phone) = {} THEN {0} ELSE LatestOtps(phone)

\* The two checks in the other order: expiry first.
VerifyStatusExpiryFirst(i, otp, t) ==
    IF i = 0 THEN "Invalid OTP"
    ELSE IF OtpExpired(otps[i], t) THEN "OTP expired"
    ELSE IF OtpMismatch(otps[i], otp) THEN "Invalid OTP"
    ELSE "ok"

\* if not latest or latest.get("otp") != payload.otp: raise ... "Invalid OTP"
\* if latest.get("expires_at") and latest["expires_at"] < now_utc(): raise ... "OTP expired"
\* The detail raised for find_one's result i at time t, "ok" when nothing is raised.
VerifyStatus(i, otp, t) ==
    IF i = 0 \/ OtpMismatch(otps[i], otp) THEN "Invalid OTP"
    ELSE IF OtpExpired(otps[i], t) THEN "OTP expired"
    ELSE "ok"

\* latest = otps.find_one(...); the two checks;
\* fid = ...; farmer_doc = farmers.find_one({"farmer_id": fid})
VerifyCheck(c) ==
    /\ pc[c] = "idle"
    /\ \E req \in OtpVerifyRequests : \E i \in FindLatest(req.phone) :
         \/ /\ VerifyStatus(i, req.otp, now) # "ok"
            /\ Raise(c, req.phone, req.otp, VerifyStatus(i, req.otp, now))
         \/ /\ VerifyStatus(i, req.otp, now) = "ok"
            /\ Len(sessions) + Cardinality(InFlight) < MaxSessions
            /\ payload' = [payload EXCEPT ![c] = req]
            /\ latest' = [latest EXCEPT ![c] = i]
            /\ farmer_doc' = [farmer_doc EXCEPT ![c] =
                                 FindFarmer(CanonicalId(req.farmer_id, req.phone))]
            /\ pc' = [pc EXCEPT ![c] = "upsert"]
            /\ UNCHANGED <<out, sess_at>>
    /\ UNCHANGED <<now, otps, farmers, sessions, verified>>

\* A profile keyed by the phone whatever the canonical identifier.
NewFarmerByPhone(fid, p) ==
    [farmer_id |-> p.phone, name |-> p.profile.name, phone |-> p.phone,
     aadhaar |-> p.profile.aadhaar, language |-> p.profile.language,
     location |-> p.profile.location, crops |-> <<>>, soil_type |-> None]

\* Farmer(farmer_id=fid, phone=..., aadhaar=..., language=..., name=..., location=...)
NewFarmer(fid, p) ==
    [farmer_id |-> fid, name |-> p.profile.name, phone |-> p.phone,
     aadhaar |-> p.profile.aadhaar, language |-> p.profile.language,
     location |-> p.profile.location, crops |-> <<>>, soil_type |-> None]

\* A $set that keeps the stored value of every field the request leaves out.
SetFarmerMerging(doc, p) ==
    LET Keep(old, new) == IF new = None THEN old ELSE new
    IN  [doc EXCEPT !.phone = p.phone,
                    !.aadhaar = Keep(doc.aadhaar, p.profile.aadhaar),
                    !.language = Keep(doc.language, p.profile.language),
                    !.name = Keep(doc.name, p.profile.name),
                    !.location = Keep(doc.location, p.profile.location)]

\* The document after update_one's $set.
SetFarmer(doc, p) ==
    [doc EXCEPT !.phone = p.phone, !.aadhaar = p.profile.aadhaar,
                !.language = p.profile.language, !.name = p.profile.name,
                !.location = p.profile.location]

\* farmers.update_one({"farmer_id": fid}, {"$set": ...}): the first matching document.
UpdateOne(fid, p) ==
    LET i == FindFarmer(fid)
    IN  IF i = 0 THEN farmers ELSE [farmers EXCEPT ![i] = SetFarmer(farmers[i], p)]

\* if not farmer_doc: create_document("farmer", farmer) else: farmers.update_one(...)
\* token = secrets.token_urlsafe(24); Session(..., created_at=now_utc(), ...
\* (The timestamps of farmer documents, which nothing reads, are left out.)
VerifyUpsert(c) ==
    /\ pc[c] = "upsert"
    /\ \/ /\ farmer_doc[c] = 0
          /\ farmers' = Append(farmers, NewFarmer(Fid(c), payload[c]))
       \/ /\ farmer_doc[c] # 0
          /\ farmers' = UpdateOne(Fid(c), payload[c])
    /\ sess_at' = [sess_at EXCEPT ![c] = now]
    /\ pc' = [pc EXCEPT ![c] = "store"]
    /\ UNCHANGED <<now, otps, sessions, payload, latest, farmer_doc, out, verified>>

\* secrets.token_urlsafe(24): a token no session holds yet.
FreshToken == Len(sessions) + 1

\* The Session document of a worker, its expires_at read from the clock at t.
NewSession(c, t) ==
    [farmer_id |-> Fid(c), token |-> FreshToken, created_at |-> sess_at[c],
     expires_at |-> t + SessionTTL]

\* A verify_otp that marks the challenge it matched as verified when it returns.
VerifyStoreMarking(c) ==
    /\ pc[c] = "store"
    /\ sessions' = Append(sessions, NewSession(c, now))
    /\ otps' = [otps EXCEPT ![latest[c]].verified = TRUE]
    /\ out' = Answer("verify_otp", payload[c].phone, payload[c].otp, FreshToken, "ok",
                     Fid(c), ExpiresIn)
    /\ verified' = verified \cup {<<payload[c].phone, Fid(c)>>}
    /\ Finish(c)
    /\ UNCHANGED <<now, farmers>>

\* ... expires_at=now_utc() + timedelta(days=7)); create_document("session", sess)
\* return TokenResponse(token=token, farmer_id=fid, expires_in=7 * 24 * 3600)
VerifyStore(c) ==
    /\ pc[c] = "store"
    /\ sessions' = Append(sessions, NewSession(c, now))
    /\ out' = Answer("verify_otp", payload[c].phone, payload[c].otp, FreshToken, "ok",
                     Fid(c), ExpiresIn)
    /\ verified' = verified \cup {<<payload[c].phone, Fid(c)>>}
    /\ Finish(c)
    /\ UNCHANGED <<now, otps, farmers>>

\* ------------------------------------------------------------ protected endpoints
\* What an endpoint that depends on require_session answers for a token at time t.
Guarded(op, token, t) ==
    LET r == RequireSession(token, t)
    IN  Answer(op, None, None, token, r.status, r.farmer_id, 0)

\* GET /dashboard: token: str = Depends(require_session).  The body only reads.
GetDashboard ==
    /\ \E token \in TokenInputs : out' = Guarded("dashboard", token, now)
    /\ UNCHANGED <<now, otps, farmers, sessions, pc, payload, latest, farmer_doc,
                   sess_at, verified>>

\* GET /calendar: token: str = Depends(require_session).  The body touches only the
\* collection "cropcalendaritem", which nothing else reads.
GetCalendar ==
    /\ \E token \in TokenInputs : out' = Guarded("calendar", token, now)
    /\ UNCHANGED <<now, otps, farmers, sessions, pc, payload, latest, farmer_doc,
                   sess_at, verified>>

\* POST /disease-detect: token is a form field the body never reads; the answer is a
\* function of the uploaded file alone.
DiseaseDetect ==
    /\ \E token \in TokenInputs :
         out' = Answer("disease_detect", None, None, token, "ok", None, 0)
    /\ UNCHANGED <<now, otps, farmers, sessions, pc, payload, latest, farmer_doc,
                   sess_at, verified>>

\* ------------------------------------------------------------ specifications
\* One request to verify_otp at a time, its steps interleaved with the clock and the
\* other endpoints, over every instant.
Next ==
    \/ Tick(Instants)
    \/ RequestOtp
    \/ VerifyCheck(Single)
    \/ VerifyUpsert(Single)
    \/ VerifyStore(Single)
    \/ GetDashboard
    \/ GetCalendar
    \/ DiseaseDetect

Spec == Init /\ [][Next]_vars

\* Overlapping requests to verify_otp: the steps of the workers interleave with each
\* other, with the clock and with the other endpoints.
NextPool ==
    \/ Tick(EarlyInstants)
    \/ RequestOtp
    \/ \E c \in Calls : VerifyCheck(c)
    \/ \E c \in Calls : VerifyUpsert(c)
    \/ \E c \in Calls : VerifyStore(c)
    \/ GetDashboard
    \/ GetCalendar
    \/ DiseaseDetect

SpecPool == Init /\ [][NextPool]_vars

\* The clock keeps advancing: whatever session has not expired, the clock comes to read
\* an instant after its expiry.
TickPast ==
    /\ \E i \in DOMAIN sessions :
          /\ ~ SessionExpired(sessions[i], now)
          /\ now' = sessions[i].expires_at + 1
    /\ UNCHANGED <<otps, farmers, sessions, pc, payload, latest, farmer_doc, sess_at,
                   out, verified>>

\* One request to verify_otp at a time, under a clock that never stops.
NextLive ==
    \/ Tick(EarlyInstants)
    \/ TickPast
    \/ RequestOtp
    \/ VerifyCheck(Single)
    \/ VerifyUpsert(Single)
    \/ VerifyStore(Single)
    \/ GetDashboard
    \/ GetCalendar
    \/ DiseaseDetect

SpecLive == Init /\ [][NextLive]_vars /\ WF_vars(TickPast)

\* ------------------------------------------------------------ the masked phone
\* Longest phone string tried.
MaxPhoneLen == 5
\* The 4 of phone[:-4] and phone[-4:].
Shown == 4
\* Characters of the phone strings tried: the two the code replaces and another digit.
PhoneChars == {"0", "1", "7"}
\* Phone strings, as sequences of characters, the empty one included.
PhoneStrings == UNION { [1 .. n -> PhoneChars] : n \in 0 .. MaxPhoneLen }

\* s[:-4]: all but the last four characters, empty for a shorter string.
ButLast(s) == IF Len(s) > Shown THEN SubSeq(s, 1, Len(s) - Shown) ELSE <<>>
\* s[-4:]: the last four characters, the whole of a shorter string.
Last(s) == IF Len(s) > Shown THEN SubSeq(s, Len(s) - Shown + 1, Len(s)) ELSE s
\* s.replace(a, b) for one-character a and b.
Replace(s, a, b) == [i \in 1 .. Len(s) |-> IF s[i] = a THEN b ELSE s[i]]
\* payload.phone[:-4].replace("0", "*").replace("1", "*") + payload.phone[-4:]
Masked(phone) == Replace(Replace(ButLast(phone), "0", "*"), "1", "*") \o Last(phone)

\* POST /auth/request-otp for a phone given character by character: the challenge is
\* stored and the answer carries the masked phone.
RequestOtpMasked ==
    /\ Len(otps) < MaxOtps
    /\ \E phone \in PhoneStrings, otp \in Codes :
         /\ otps' = Append(otps, Stamped(NewOtp(phone, None, otp, now), now))
         /\ out' = [op |-> "request_otp", phone |-> phone, otp |-> otp, token |-> 0,
                    status |-> "OTP sent", farmer_id |-> None, expires_in |-> 0,
                    masked |-> Masked(phone)]
    /\ UNCHANGED <<now, farmers, sessions, pc, payload, latest, farmer_doc,
                   sess_at, verified>>

NextMask == RequestOtpMasked

SpecMask == Init /\ [][NextMask]_vars

\* ------------------------------------------------------------ claims

\* A worker passes the checks of verify_otp in this step.
Passes(c) == pc[c] = "idle" /\ pc'[c] = "upsert"
\* A worker stores its session and returns in this step.
Returns(c) == pc[c] = "store" /\ pc'[c] = "idle"
\* verify_otp raises in this step.
Fails == out' # out /\ out'.op = "verify_otp" /\ out'.status # "ok"
\* Challenge i is one of greatest creation timestamp among those of its phone.
IsLatest(i) ==
    \A j \in DOMAIN otps : otps[j].phone = otps[i].phone
                              => otps[j].created_at <= otps[i].created_at
\* The canonical identifier the matched challenge of a worker gives.
ChallengeFid(c) == CanonicalId(otps[latest[c]].farmer_id, otps[latest[c]].phone)

\* C1 (as claimed): a verify_otp call made at a clock time at or after the expiry of
\* the challenge it matches, the expiry instant included, never passes the checks.
C1_ExpiredAtOrAfterExpiry ==
    [][\A c \in Calls : Passes(c) => now < otps[latest'[c]].expires_at]_vars

C3_SupersededCodeFails ==
    [][\A c \in Calls : Passes(c) =>
          ~ \E i, j \in DOMAIN otps :
                /\ otps[i].created_at < otps[j].created_at
                /\ otps[i].phone = payload'[c].phone
                /\ otps[j].phone = payload'[c].phone
                /\ otps[i].otp = payload'[c].otp]_vars

\* C3 (amended): a verify_otp call passes the checks only on a challenge of its phone
\* whose creation timestamp is the greatest and whose code is the submitted one; a call
\* whose code is that of no such challenge fails with "Invalid OTP".
C3_OnlyLatestVerifiable ==
    [][/\ \A c \in Calls : Passes(c) =>
             /\ latest'[c] \in DOMAIN otps
             /\ otps[latest'[c]].phone = payload'[c].phone
             /\ IsLatest(latest'[c])
             /\ otps[latest'[c]].otp = payload'[c].otp
       /\ Fails /\ (\A i \in DOMAIN otps :
                       otps[i].phone = out'.phone /\ IsLatest(i) => otps[i].otp # out'.otp)
             => out'.status = "Invalid OTP"]_vars

\* C3 witness: verify_otp has refused the code of the first of two challenges of a
\* phone, the second created later with another code.
C3_Witness ==
    /\ out.op = "verify_otp"
    /\ out.status = "Invalid OTP"
    /\ \E i, j \in DOMAIN otps :
          /\ otps[i].phone = out.phone
          /\ otps[j].phone = out.phone
          /\ otps[i].created_at < otps[j].created_at
          /\ otps[i].otp = out.otp
          /\ otps[j].otp # out.otp

\* C4: a verify_otp call whose code differs from the code of the latest challenge of
\* its phone, or whose phone has no challenge, fails with "Invalid OTP", whether or
\* not the challenge has expired: it never fails as expired, and never passes.
C4_MismatchIsInvalid ==
    /\ (/\ out.op = "verify_otp"
        /\ out.status # "ok"
        /\ \A i \in DOMAIN otps :
              otps[i].phone = out.phone /\ IsLatest(i) => otps[i].otp # out.otp)
       => out.status = "Invalid OTP"
    /\ \A c \in Calls : pc[c] # "idle" =>
          /\ otps[latest[c]].phone = payload[c].phone
          /\ otps[latest[c]].otp = payload[c].otp

\* C4 witness: verify_otp has answered "Invalid OTP" to a wrong code for a challenge
\* that had expired before the call (a challenge of another phone was issued after the
\* expiry, and before the call).
C4_Witness ==
    /\ out.op = "verify_otp"
    /\ out.status = "Invalid OTP"
    /\ \E i, j \in DOMAIN otps :
          /\ otps[i].phone = out.phone
          /\ IsLatest(i)
          /\ otps[i].otp # out.otp
          /\ otps[j].phone # out.phone
          /\ otps[j].created_at > otps[i].expires_at

\* C5 (as claimed): a verify_otp call that matches a challenge succeeds with a session
\* bound to the canonical identifier of the challenge: the farmer identifier supplied
\* when the challenge was requested, else the phone.
C5_BoundToChallengeFarmer ==
    [][\A c \in Calls : Returns(c) =>
          /\ out'.status = "ok"
          /\ out'.farmer_id = ChallengeFid(c)
          /\ sessions'[Len(sessions')].farmer_id = ChallengeFid(c)]_vars

\* C6 (as claimed): the profile a verify_otp call upserts is the one of the canonical
\* identifier of the matched challenge record.
C6_UpsertsChallengeFarmer ==
    [][\A c \in Calls : (pc[c] = "upsert" /\ pc'[c] = "store") =>
          \E i \in DOMAIN farmers' :
              /\ farmers'[i].farmer_id = ChallengeFid(c)
              /\ farmers'[i].phone = payload[c].phone
              /\ farmers'[i].name = payload[c].profile.name]_vars

\* C7 (as claimed): a protected endpoint answers normally only for a token that
\* resolves to a session record not yet expired.
C7_ProtectedNeedSession ==
    [][(/\ out' # out
        /\ out'.op \in {"dashboard", "calendar", "disease_detect"}
        /\ out'.status = "ok")
       => \E i \in DOMAIN sessions :
              sessions[i].token = out'.token /\ now <= sessions[i].expires_at]_vars

C9_UniqueFarmerId ==
    \A i, j \in DOMAIN farmers : farmers[i].farmer_id = farmers[j].farmer_id => i = j

\* C10 (as claimed): every phone for which a verify_otp call has succeeded is the
\* phone of some profile.
C10_ProfileForEveryPhone ==
    \A v \in verified : \E i \in DOMAIN farmers : farmers[i].phone = v[1]

\* C10 (amended): every phone for which a verify_otp call has succeeded has the
\* profile of the canonical identifier of that call in the store.
C10_ProfileForEveryIdentifier ==
    \A v \in verified : \E i \in DOMAIN farmers : farmers[i].farmer_id = v[2]

\* C10 witness: a phone has verified, and a later verification of another phone under
\* the same identifier has left no profile with the first phone.
C10_Witness ==
    \E v \in verified :
        /\ \E i \in DOMAIN farmers : farmers[i].farmer_id = v[2]
        /\ \A i \in DOMAIN farmers : farmers[i].phone # v[1]

\* The profile fields a verify_otp request carries.
Supplied(p) ==
    [phone |-> p.phone, aadhaar |-> p.profile.aadhaar, language |-> p.profile.language,
     name |-> p.profile.name, location |-> p.profile.location]
\* The same fields of a stored profile.
Stored(doc) ==
    [phone |-> doc.phone, aadhaar |-> doc.aadhaar, language |-> doc.language,
     name |-> doc.name, location |-> doc.location]
\* The profiles of an identifier in a farmer store.
ProfilesOf(store, fid) == { i \in DOMAIN store : store[i].farmer_id = fid }

\* C11: when verify_otp calls succeed one after the other for the same canonical
\* identifier, the upsert of the later call adds no profile and leaves the single
\* profile of the identifier with phone, aadhaar, language, name and location equal to
\* the values of that call, None included, whatever was stored; and the profile still
\* reads so when the call returns.
C11_SecondCallOverwrites ==
    [][/\ (pc[Single] = "upsert" /\ pc'[Single] = "store" /\ farmer_doc[Single] # 0) =>
             /\ Len(farmers') = Len(farmers)
             /\ Cardinality(ProfilesOf(farmers', Fid(Single))) = 1
             /\ \A i \in ProfilesOf(farmers', Fid(Single)) :
                    Stored(farmers'[i]) = Supplied(payload[Single])
       /\ Returns(Single) =>
             /\ Cardinality(ProfilesOf(farmers', Fid(Single))) = 1
             /\ \A i \in ProfilesOf(farmers', Fid(Single)) :
                    Stored(farmers'[i]) = Supplied(payload[Single])]_vars

\* C11 witness: identifier F1 was verified for phone P1 with every profile field given,
\* then for phone P2 with none, and its single profile now holds P2 and no field of
\* the first call.
C11_Witness ==
    /\ out.op = "verify_otp" /\ out.status = "ok" /\ out.phone = "P2"
    /\ <<"P1", "F1">> \in verified
    /\ <<"P2", "F1">> \in verified
    /\ \E i \in DOMAIN farmers :
          /\ farmers[i].farmer_id = "F1"
          /\ Stored(farmers[i]) = [phone |-> "P2", aadhaar |-> None, language |-> "en",
                                   name |-> None, location |-> None]

\* C12: verify_otp does not consume a challenge.  A call never fails while every latest
\* challenge of its phone carries the submitted code and has not expired, however many
\* calls have succeeded on it before; verify_otp leaves the challenges as they are; and
\* a call that returns appends a session with a token of its own, after which every
\* earlier session is unchanged and validates as before.
C12_Replayable ==
    [][/\ Fails =>
             ~ (/\ LatestOtps(out'.phone) # {}
                /\ \A i \in LatestOtps(out'.phone) :
                       otps[i].otp = out'.otp /\ now <= otps[i].expires_at)
       /\ \A c \in Calls : (Passes(c) \/ Returns(c)) => otps' = otps
       /\ \A c \in Calls : Returns(c) =>
             /\ Len(sessions') = Len(sessions) + 1
             /\ \A i \in DOMAIN sessions :
                    /\ sessions'[i] = sessions[i]
                    /\ sessions'[Len(sessions')].token # sessions[i].token
                    /\ RequireSession(sessions[i].token, now)'
                          = RequireSession(sessions[i].token, now)]_vars

\* C12 witness: two calls have succeeded on the one challenge ever issued, and the
\* tokens of both sessions validate.
C12_Witness ==
    /\ Len(otps) = 1
    /\ Len(sessions) = 2
    /\ out.op = "verify_otp" /\ out.status = "ok"
    /\ \A i \in DOMAIN sessions :
          RequireSession(sessions[i].token, now).status = "ok"

\* C13 (as claimed): when a verify_otp call returns while another call for the same
\* phone and code is past the checks, it succeeds with a session whose token no earlier
\* session holds, and the two calls bind their sessions to the same farmer identifier.
C13_OverlappingSameFarmer ==
    [][\A c, d \in Calls :
          (/\ c # d
           /\ Returns(c)
           /\ pc[d] # "idle"
           /\ payload[d].phone = payload[c].phone
           /\ payload[d].otp = payload[c].otp) =>
              /\ out'.status = "ok"
              /\ \A i \in DOMAIN sessions : sessions[i].token # out'.token
              /\ sessions'[Len(sessions')].farmer_id = Fid(d)]_vars

\* C14: session validation, as the dashboard and the calendar run it, fails with
\* "Invalid token" for every token no session record holds, and when it succeeds the
\* token is held by a session record and the farmer identifier returned is the one
\* stored in every record that holds it.
C14_OnlyStoredTokens ==
    [][(out' # out /\ out'.op \in {"dashboard", "calendar"}) =>
          LET held == { i \in DOMAIN sessions : sessions[i].token = out'.token }
          IN  /\ held = {} => out'.status = "Invalid token" /\ out'.farmer_id = None
              /\ out'.status = "ok" =>
                    /\ held # {}
                    /\ \A i \in held : out'.farmer_id = sessions[i].farmer_id]_vars

\* C14 witness: with sessions of two farmer identifiers in the store, the calendar has
\* accepted the token of the second and answered for its identifier.
C14_Witness ==
    /\ Len(sessions) = 2
    /\ sessions[1].farmer_id # sessions[2].farmer_id
    /\ out.op = "calendar" /\ out.status = "ok"
    /\ out.token = sessions[2].token
    /\ out.farmer_id = sessions[2].farmer_id

\* C14 second case: with a session in the store, the dashboard has refused a token
\* that no record holds.
C14_WitnessUnknown ==
    /\ sessions # <<>>
    /\ out.op = "dashboard" /\ out.status = "Invalid token"
    /\ \A i \in DOMAIN sessions : sessions[i].token # out.token

\* C15: no step modifies or removes a session record; once the clock has passed a
\* session's expiry, validation of its token fails with "Session expired" after every
\* later step; and while the clock keeps advancing every session issued comes to be
\* expired.
C15_ExpiredIsTerminal ==
    /\ [][/\ Len(sessions') >= Len(sessions)
          /\ \A i \in DOMAIN sessions :
                 /\ sessions'[i] = sessions[i]
                 /\ RequireSession(sessions[i].token, now).status = "Session expired"
                       => (RequireSession(sessions[i].token, now)').status
                             = "Session expired"]_vars
    /\ \A k \in 1 .. MaxSessions :
          (Len(sessions) >= k)
             ~> (Len(sessions) >= k
                   /\ RequireSession(sessions[k].token, now).status = "Session expired")

\* C15 witness: the dashboard has refused an expired session, and a session issued
\* after that refusal is in the store beside it.
C15_Witness ==
    /\ Len(sessions) = 2
    /\ RequireSession(sessions[1].token, now).status = "Session expired"
    /\ sessions[2].created_at > sessions[1].expires_at
    /\ out.op = "dashboard" /\ out.status = "Session expired"
    /\ out.token = sessions[1].token

\* C16: the challenge store only grows and its records never change.  A request_otp
\* call appends exactly one challenge, with the phone and farmer identifier of the
\* request, the code it answers with, expiry five minutes after the call and verified
\* false, and leaves the others as they are, those of the same phone included; no other
\* step, of verify_otp or of session validation, touches the store; and the verified
\* flag of every challenge is false in every state.
C16_ChallengesOnlyAppended ==
    /\ [][/\ Len(otps') \in {Len(otps), Len(otps) + 1}
          /\ \A i \in DOMAIN otps : otps'[i] = otps[i]
          /\ Len(otps') = Len(otps) + 1 =>
                LET d == otps'[Len(otps')]
                IN  /\ out'.op = "request_otp"
                    /\ d.phone = out'.phone
                    /\ d.otp = out'.otp
                    /\ d.expires_at = now + OtpTTL
                    /\ d.verified = FALSE
                    /\ \E r \in OtpStartRequests :
                           r.phone = d.phone /\ r.farmer_id = d.farmer_id
          /\ (out' # out /\ out'.op = "request_otp") => Len(otps') = Len(otps) + 1
          /\ (pc' # pc \/ sessions' # sessions \/ farmers' # farmers
                \/ (out' # out /\ out'.op # "request_otp")) => otps' = otps]_vars
    /\ [](\A i \in DOMAIN otps : otps[i].verified = FALSE)

\* C16 witness: two challenges of one phone are in the store, both with verified
\* false, after a verify_otp call has succeeded on the second and the dashboard has
\* validated the session.
C16_Witness ==
    /\ Len(otps) = 2
    /\ otps[1].phone = otps[2].phone
    /\ otps[1].otp # otps[2].otp
    /\ otps[1].created_at < otps[2].created_at
    /\ \A i \in DOMAIN otps : otps[i].verified = FALSE
    /\ <<otps[2].phone, otps[2].phone>> \in verified
    /\ out.op = "dashboard" /\ out.status = "ok"

\* C17 (as claimed): every session record expires exactly seven days after its
\* created_at, and a successful verify_otp answers with expires_in = 604800.
C17_ExactlySevenDays ==
    /\ \A i \in DOMAIN sessions :
          sessions[i].expires_at = sessions[i].created_at + SessionTTL
    /\ (out.op = "verify_otp" /\ out.status = "ok") => out.expires_in = ExpiresIn

\* C18: in every state, the intermediate states of overlapping verify_otp calls
\* included, the farmer identifier of every session record is that of a profile in the
\* farmer store.
C18_SessionHasProfile ==
    \A i \in DOMAIN sessions :
        \E j \in DOMAIN farmers : farmers[j].farmer_id = sessions[i].farmer_id

\* C18 witness: one call has stored its session while an overlapping call for another
\* identifier has passed the checks and has not yet written the profile it found
\* missing.
C18_Witness ==
    /\ Len(sessions) = 1
    /\ \E c \in Calls :
          /\ pc[c] = "upsert"
          /\ farmer_doc[c] = 0
          /\ Fid(c) # sessions[1].farmer_id
          /\ ProfilesOf(farmers, Fid(c)) = {}

\* The decimal digits.
Digits == {"0", "1", "2", "3", "4", "5", "6", "7", "8", "9"}

\* C19 (as claimed): the masked phone request_otp answers with is as long as the
\* phone, ends with the last four characters of the phone unchanged, and has "*" in
\* place of every digit before them.
C19_PrefixDigitsMasked ==
    out.op = "request_otp" =>
        /\ Len(out.masked) = Len(out.phone)
        /\ \A i \in 1 .. Len(out.phone) :
              IF i > Len(out.phone) - Shown
              THEN out.masked[i] = out.phone[i]
              ELSE out.phone[i] \in Digits => out.masked[i] = "*"

====
